---- MODULE Spec2Model ----
(***************************************************************************)
(* Model of the vite-hmr plugin (src/index.ts).                            *)
(*                                                                         *)
(* Spec       : the dev-session marker manager.  One Node process, up to   *)
(*              MaxServers dev servers handed to configureServer, the      *)
(*              marker ("hot") file on disk, the httpServer events         *)
(*              'listening' / 'close' and the signals SIGINT / SIGTERM.    *)
(* SpecConfig : the pure parts of hmr(): the reload plugin list            *)
(*              (refreshPlugin) and the asset naming rule                  *)
(*              (assetFileNames), applied to inputs drawn from bounded     *)
(*              sets.                                                      *)
(*                                                                         *)
(* URLs are TLC strings; paths and asset names are sequences of            *)
(* one-character strings so that regular expressions and path.dirname can  *)
(* be computed character by character.                                     *)
(***************************************************************************)
EXTENDS Integers, Sequences, FiniteSets, TLC

VARIABLES
    hotDirExists,   \* fs.existsSync(path.dirname(hotFile))
    hotFileContent, \* content of hotFile, or NoFile when it does not exist
    server,         \* per server: lifecycle state and httpServer.address()
    onceListening,  \* per server: the once('listening') handler is still armed
    closeListeners, \* per server: number of cleanup listeners on 'close'
    closes,         \* per server: number of 'close' events emitted so far
    sigListeners,   \* per signal: number of listeners registered with process
    proc,           \* the Node process: running / exited, how, exit code
    shutdownCalls,  \* history: number of signal listeners that have been invoked
    lastListening,  \* history: server whose listening handler ran last (0: none)
    closedSince,    \* history: a 'close' was emitted since lastListening's event
    last,           \* history: the last event and the marker content before it
    call            \* SpecConfig: the last call of a pure function and its result

vars == <<hotDirExists, hotFileContent, server, onceListening, closeListeners,
          closes, sigListeners, proc, shutdownCalls, lastListening, closedSince,
          last, call>>

serverVars == <<hotDirExists, hotFileContent, server, onceListening,
                closeListeners, closes, sigListeners, proc, shutdownCalls,
                lastListening, closedSince, last>>

----------------------------------------------------------------------------
(* Bounds *)

MaxServers == 2     \* servers handed to configureServer in one process
MaxCloses == 2      \* 'close' events one httpServer emits

(* Program constants *)

DefaultPort == 5173

Servers == 1..MaxServers
Signals == {"SIGINT", "SIGTERM"}

NoFile == "<absent>"
StaleContent == "http://stale.invalid:1"

----------------------------------------------------------------------------
(* httpServer.address(): null, a pipe name (string) or an AddressInfo *)

AddrNull == [kind |-> "null", address |-> "", port |-> 0]
AddrUndefined == [kind |-> "undefined", address |-> "", port |-> 0]
AddrPipe == [kind |-> "string", address |-> "/tmp/vite.sock", port |-> 0]
AddrInfo(a, p) == [kind |-> "info", address |-> a, port |-> p]

Addresses ==
    {AddrNull, AddrUndefined, AddrPipe,
     AddrInfo("::", 5174), AddrInfo("0.0.0.0", 5173), AddrInfo("127.0.0.1", 5174)}

typeof(addr) ==
    CASE addr.kind = "null" -> "object"
      [] addr.kind = "info" -> "object"
      [] addr.kind = "string" -> "string"
      [] OTHER -> "undefined"

isAddressInfo(addr) == typeof(addr) = "object" /\ addr.kind # "null"

host(addr) ==
    IF isAddressInfo(addr)
    THEN IF addr.address = "::" THEN "localhost" ELSE addr.address
    ELSE "localhost"

(* faulty variant: the bound port is ignored *)
portWrong(addr) == DefaultPort
(* line 140 *)
port(addr) == IF isAddressInfo(addr) THEN addr.port ELSE DefaultPort

url(addr) == "http://" \o host(addr) \o ":" \o ToString(port(addr))

----------------------------------------------------------------------------
(* The filesystem calls on hotFile and its directory.  Each returns the new *)
(* [dir, file] and whether the call threw.                                  *)

existsSync(content) == content # NoFile

unlinkSync(dir, content) ==
    IF content = NoFile
    THEN [dir |-> dir, file |-> content, threw |-> TRUE]     \* ENOENT
    ELSE [dir |-> dir, file |-> NoFile, threw |-> FALSE]

writeFileSync(dir, content, data) ==
    IF dir
    THEN [dir |-> dir, file |-> data, threw |-> FALSE]
    ELSE [dir |-> dir, file |-> content, threw |-> TRUE]     \* ENOENT

(* faulty variant: an existing marker is not overwritten *)
listeningHandlerKeepExisting(dir, content, addr) ==
    IF existsSync(content)
    THEN [dir |-> dir, file |-> content, threw |-> FALSE]
    ELSE writeFileSync(TRUE, content, url(addr))
(* the 'listening' handler, lines 126-146 *)
listeningHandler(dir, content, addr) ==
    LET hotDir == IF ~dir THEN TRUE ELSE dir      \* mkdirSync(recursive)
    IN  writeFileSync(hotDir, content, url(addr))

(* faulty variant: unlink without the existence check *)
cleanupUnguarded(dir, content) == unlinkSync(dir, content)
(* cleanup, lines 148-150 *)
cleanup(dir, content) ==
    IF existsSync(content)
    THEN unlinkSync(dir, content)
    ELSE [dir |-> dir, file |-> content, threw |-> FALSE]

RECURSIVE emitClose(_, _, _)
(* 'close' calls each of its n listeners in turn; a throw ends the emit *)
emitClose(n, dir, content) ==
    IF n = 0 THEN [dir |-> dir, file |-> content, threw |-> FALSE]
    ELSE LET r == cleanup(dir, content)
         IN  IF r.threw THEN r ELSE emitClose(n - 1, r.dir, r.file)

Running == [status |-> "running", by |-> "none", code |-> 0]
Exited(by, code) == [status |-> "exited", by |-> by, code |-> code]

(* faulty variant: process.exit(0) without cleanup() *)
signalListenerNoCleanup(dir, content) ==
    [dir |-> dir, file |-> content, threw |-> FALSE,
     proc |-> Exited("signal-handler", 0)]
(* the SIGINT / SIGTERM listener, lines 153-160: cleanup(); process.exit(0) *)
signalListener(dir, content) ==
    LET r == cleanup(dir, content)
    IN  [dir |-> r.dir, file |-> r.file, threw |-> r.threw,
         proc |-> IF r.threw THEN Exited("uncaught-exception", 1)
                  ELSE Exited("signal-handler", 0)]

----------------------------------------------------------------------------
(* Server lifecycle *)

NoServer == [state |-> "none", address |-> AddrNull]

Event(op, s) == [op |-> op, s |-> s, preFile |-> hotFileContent,
                 preDir |-> hotDirExists]

NumConfigured == Cardinality({s \in Servers : server[s].state # "none"})

InitServer ==
    /\ hotDirExists \in BOOLEAN
    /\ hotFileContent \in {NoFile, StaleContent}
    /\ existsSync(hotFileContent) => hotDirExists
    /\ server = [s \in Servers |-> NoServer]
    /\ onceListening = [s \in Servers |-> FALSE]
    /\ closeListeners = [s \in Servers |-> 0]
    /\ closes = [s \in Servers |-> 0]
    /\ sigListeners = [sig \in Signals |-> 0]
    /\ proc = Running
    /\ shutdownCalls = 0
    /\ lastListening = 0
    /\ closedSince = FALSE
    /\ last = [op |-> "init", s |-> 0, preFile |-> NoFile, preDir |-> FALSE]

(* faulty variant: cleanup is not registered on 'close' *)
configureServerNoClose(s, hasHttp) ==
    /\ proc.status = "running"
    /\ server[s].state = "none"
    /\ s = NumConfigured + 1
    /\ server' = [server EXCEPT ![s].state = IF hasHttp THEN "idle" ELSE "nohttp"]
    /\ onceListening' = [onceListening EXCEPT ![s] = hasHttp]
    /\ sigListeners' = [sig \in Signals |-> sigListeners[sig] + 1]
    /\ last' = Event("configureServer", s)
    /\ UNCHANGED <<hotDirExists, hotFileContent, closeListeners, closes, proc,
                   shutdownCalls, lastListening, closedSince, call>>
(* configureServer(server), lines 125-161; hasHttp: server.httpServer is *)
(* defined (it is not in middleware mode)                               *)
configureServer(s, hasHttp) ==
    /\ proc.status = "running"
    /\ server[s].state = "none"
    /\ s = NumConfigured + 1
    /\ server' = [server EXCEPT ![s].state = IF hasHttp THEN "idle" ELSE "nohttp"]
    /\ onceListening' = [onceListening EXCEPT ![s] = hasHttp]
    /\ closeListeners' =
          [closeListeners EXCEPT ![s] = IF hasHttp THEN @ + 1 ELSE @]
    /\ sigListeners' = [sig \in Signals |-> sigListeners[sig] + 1]
    /\ last' = Event("configureServer", s)
    /\ UNCHANGED <<hotDirExists, hotFileContent, closes, proc, shutdownCalls,
                   lastListening, closedSince, call>>

(* httpServer emits 'listening'; address() is addr *)
Listening(s, addr) ==
    /\ proc.status = "running"
    /\ server[s].state = "idle"
    /\ server' = [server EXCEPT ![s] = [state |-> "active", address |-> addr]]
    /\ IF onceListening[s]
       THEN LET r == listeningHandler(hotDirExists, hotFileContent, addr)
            IN  /\ hotDirExists' = r.dir
                /\ hotFileContent' = r.file
                /\ proc' = IF r.threw THEN Exited("uncaught-exception", 1) ELSE proc
                /\ lastListening' = s
                /\ closedSince' = FALSE
       ELSE UNCHANGED <<hotDirExists, hotFileContent, proc, lastListening,
                        closedSince>>
    /\ onceListening' = [onceListening EXCEPT ![s] = FALSE]
    /\ last' = Event("listening", s)
    /\ UNCHANGED <<closeListeners, closes, sigListeners, shutdownCalls, call>>

(* httpServer emits 'close' (also when it never listened, and again on a *)
(* repeated close()); address() is null from then on                     *)
Close(s) ==
    /\ proc.status = "running"
    /\ server[s].state \in {"idle", "active", "closed"}
    /\ closes[s] < MaxCloses
    /\ closes' = [closes EXCEPT ![s] = @ + 1]
    /\ server' = [server EXCEPT ![s] = [state |-> "closed", address |-> AddrNull]]
    /\ LET r == emitClose(closeListeners[s], hotDirExists, hotFileContent)
       IN  /\ hotDirExists' = r.dir
           /\ hotFileContent' = r.file
           /\ proc' = IF r.threw THEN Exited("uncaught-exception", 1) ELSE proc
    /\ closedSince' = TRUE
    /\ last' = Event("close", s)
    /\ UNCHANGED <<onceListening, closeListeners, sigListeners, shutdownCalls,
                   lastListening, call>>

(* the process receives SIGINT or SIGTERM: with no listener Node's default *)
(* action ends the process; otherwise the first listener runs, and it      *)
(* never returns (process.exit, or an uncaught exception)                  *)
Signal(sig) ==
    /\ proc.status = "running"
    /\ IF sigListeners[sig] = 0
       THEN /\ proc' = Exited("default-signal", IF sig = "SIGINT" THEN 130 ELSE 143)
            /\ UNCHANGED <<hotDirExists, hotFileContent, shutdownCalls>>
       ELSE LET r == signalListener(hotDirExists, hotFileContent)
            IN  /\ hotDirExists' = r.dir
                /\ hotFileContent' = r.file
                /\ proc' = r.proc
                /\ shutdownCalls' = shutdownCalls + 1
    /\ last' = Event(sig, 0)
    /\ UNCHANGED <<server, onceListening, closeListeners, closes, sigListeners,
                   lastListening, closedSince, call>>

NoCall == [op |-> "none"]

Init == InitServer /\ call = NoCall

Next ==
    \/ \E s \in Servers, hasHttp \in BOOLEAN : configureServer(s, hasHttp)
    \/ \E s \in Servers, addr \in Addresses : Listening(s, addr)
    \/ \E s \in Servers : Close(s)
    \/ \E sig \in Signals : Signal(sig)

Spec == Init /\ [][Next]_vars

----------------------------------------------------------------------------
(* hmr(options): the pure parts.  Paths, patterns and asset names are       *)
(* sequences of characters.                                                 *)

MaxPathLen == 3     \* length of the enumerated paths
MaxInputs == 3      \* entries in options.input and in a refresh list
MaxStemLen == 1     \* length of an asset name's stem

RECURSIVE SeqsUpTo(_, _)
SeqsUpTo(S, n) ==
    IF n = 0 THEN {<<>>}
    ELSE LET shorter == SeqsUpTo(S, n - 1)
         IN  shorter \cup {Append(q, x) : q \in shorter, x \in S}

PathChars == {"a", "/", "\\"}
ExampleA == <<"s","r","c","/","j","s","/","a",".","t","s">>
ExampleB == <<"s","r","c","/","c","s","s","/","b",".","c","s","s">>
ExampleC == <<"s","r","c","/","j","s","/","c",".","t","s">>
ExampleD == <<"s","r","c","\\","j","s","\\","d",".","t","s">>
ListPaths == {ExampleA, ExampleB, ExampleC, ExampleD, <<"a">>, <<"/", "a">>}
Paths == SeqsUpTo(PathChars, MaxPathLen) \cup ListPaths
(* lists of up to MaxInputs of the longer paths, and every path on its own *)
PathLists == SeqsUpTo(ListPaths, MaxInputs) \cup {<<p>> : p \in Paths}

(* options.input: an array, or a record whose keys were inserted in order *)
Key(i) == "entry" \o ToString(i)
ArrayInput(l) == [kind |-> "array", keys |-> <<>>, items |-> l]
RecordInput(l) ==
    [kind |-> "record", keys |-> [i \in 1..Len(l) |-> Key(i)],
     items |-> [k \in {Key(i) : i \in 1..Len(l)} |->
                   l[CHOOSE i \in 1..Len(l) : Key(i) = k]]]
ArrayIsArrayInput(input) == input.kind = "array"
ObjectValues(input) == [i \in 1..Len(input.keys) |-> input.items[input.keys[i]]]

(* options.refresh: omitted, boolean, string or string[] *)
ROmitted == [kind |-> "undefined", bool |-> FALSE, str |-> <<>>, list |-> <<>>]
RBool(b) == [kind |-> "boolean", bool |-> b, str |-> <<>>, list |-> <<>>]
RString(s) == [kind |-> "string", bool |-> FALSE, str |-> s, list |-> <<>>]
RArray(l) == [kind |-> "array", bool |-> FALSE, str |-> <<>>, list |-> l]

Inputs == {ArrayInput(l) : l \in PathLists} \cup {RecordInput(l) : l \in PathLists}
FewInputs == {ArrayInput(<<>>), ArrayInput(<<ExampleA, ExampleB>>)}
Refreshes ==
    {ROmitted, RBool(FALSE), RBool(TRUE)}
    \cup {RString(s) : s \in Paths} \cup {RArray(l) : l \in PathLists}
OptionsSet ==
    {[input |-> i, refresh |-> RBool(TRUE)] : i \in Inputs}
    \cup {[input |-> i, refresh |-> r] : i \in FewInputs, r \in Refreshes}

(* p.replace(/\\/g, "/") *)
replaceBackslashes(p) == [i \in 1..Len(p) |-> IF p[i] = "\\" THEN "/" ELSE p[i]]

RECURSIVE dirnameScan(_, _, _)
(* the backward scan of path.dirname: index of the separator that ends the  *)
(* directory part, 0 when there is none                                     *)
dirnameScan(p, i, matchedSlash) ==
    IF i < 2 THEN 0
    ELSE IF p[i] = "/"
         THEN IF ~matchedSlash THEN i ELSE dirnameScan(p, i - 1, matchedSlash)
         ELSE dirnameScan(p, i - 1, FALSE)

(* path.dirname (POSIX) *)
dirname(p) ==
    IF Len(p) = 0 THEN <<".">>
    ELSE LET hasRoot == p[1] = "/"
             end == dirnameScan(p, Len(p), TRUE)
         IN  IF end = 0 THEN (IF hasRoot THEN <<"/">> ELSE <<".">>)
             ELSE IF hasRoot /\ end = 2 THEN <<"/", "/">>
             ELSE SubSeq(p, 1, end - 1)

RECURSIVE ArrayFromSet(_)
(* Array.from(new Set(list)): the distinct elements in insertion order *)
ArrayFromSet(l) ==
    IF l = <<>> THEN <<>>
    ELSE LET init == ArrayFromSet(SubSeq(l, 1, Len(l) - 1))
             x == l[Len(l)]
         IN  IF \E i \in 1..Len(init) : init[i] = x THEN init ELSE Append(init, x)

(* faulty variant: the directories are not passed through a Set *)
rootsNoSet(input) ==
    LET inputPaths == IF ArrayIsArrayInput(input) THEN input.items
                      ELSE ObjectValues(input)
    IN  [i \in 1..Len(inputPaths) |-> dirname(replaceBackslashes(inputPaths[i]))]
(* roots, lines 173-176 *)
roots(input) ==
    LET inputPaths == IF ArrayIsArrayInput(input) THEN input.items
                      ELSE ObjectValues(input)
    IN  ArrayFromSet(
           [i \in 1..Len(inputPaths) |-> dirname(replaceBackslashes(inputPaths[i]))])

MainPlugin == [name |-> "vite-plugin-hmr", paths |-> <<>>]
fullReload(paths) == [name |-> "vite-plugin-full-reload", paths |-> paths]

(* faulty variant: the single-string branch is missing *)
refreshPluginNoString(input, refreshOption) ==
    LET refresh == IF refreshOption.kind = "undefined" THEN RBool(FALSE)
                   ELSE refreshOption
    IN  IF refresh.kind = "boolean" /\ ~refresh.bool THEN <<>>
        ELSE IF refresh.kind = "boolean" /\ refresh.bool
             THEN <<fullReload(roots(input))>>
        ELSE IF refresh.kind = "array" THEN <<fullReload(refresh.list)>>
        ELSE <<>>
(* refreshPlugin, lines 170-182; refresh defaults to false (line 82) *)
refreshPlugin(input, refreshOption) ==
    LET refresh == IF refreshOption.kind = "undefined" THEN RBool(FALSE)
                   ELSE refreshOption
    IN  IF refresh.kind = "boolean" /\ ~refresh.bool THEN <<>>
        ELSE IF refresh.kind = "boolean" /\ refresh.bool
             THEN <<fullReload(roots(input))>>
        ELSE IF refresh.kind = "array" THEN <<fullReload(refresh.list)>>
        ELSE IF refresh.kind = "string" THEN <<fullReload(<<refresh.str>>)>>
        ELSE <<>>

(* hmr(options), line 184: [plugin, ...refreshPlugin] *)
Hmr(options) ==
    /\ call = NoCall
    /\ call' = [op |-> "hmr", options |-> options,
                result |-> <<MainPlugin>> \o
                           refreshPlugin(options.input, options.refresh)]
    /\ UNCHANGED serverVars

----------------------------------------------------------------------------
(* assetFileNames, lines 108-113 *)

(* a pattern is a sequence of [ch, opt]: a character, possibly optional *)
Lit(s) == [i \in 1..Len(s) |-> [ch |-> s[i], opt |-> FALSE]]
Opt(c) == <<[ch |-> c, opt |-> TRUE]>>

(* /\.css$/ and /\.(gif|jpe?g|png|svg|webp)$/ : a prefix, then one of the  *)
(* alternatives, then the end of the string                                 *)
CssRegex == [prefix |-> Lit(<<".", "c", "s", "s">>), alts |-> {<<>>}]
ImageRegex ==
    [prefix |-> Lit(<<".">>),
     alts |-> {Lit(<<"g","i","f">>),
               Lit(<<"j","p">>) \o Opt("e") \o Lit(<<"g">>),
               Lit(<<"p","n","g">>),
               Lit(<<"s","v","g">>),
               Lit(<<"w","e","b","p">>)}]

RECURSIVE MatchSeq(_, _, _)
(* the positions at which pattern pat can end when it starts at s[i] *)
MatchSeq(pat, s, i) ==
    IF pat = <<>> THEN {i}
    ELSE LET h == Head(pat)
             take == IF i <= Len(s) /\ s[i] = h.ch
                     THEN MatchSeq(Tail(pat), s, i + 1) ELSE {}
             skip == IF h.opt THEN MatchSeq(Tail(pat), s, i) ELSE {}
         IN  take \cup skip

(* faulty variant: the pattern is not anchored at the end of the string *)
regexTestUnanchored(re, s) ==
    \E i \in 1..(Len(s) + 1) : \E alt \in re.alts :
       \E j \in MatchSeq(re.prefix, s, i) : MatchSeq(alt, s, j) # {}
(* re.test(s) for a pattern that ends in $ *)
regexTest(re, s) ==
    \E i \in 1..(Len(s) + 1) : \E alt \in re.alts :
       \E j \in MatchSeq(re.prefix, s, i) : (Len(s) + 1) \in MatchSeq(alt, s, j)

Undefined == [defined |-> FALSE, chars |-> <<>>]
Name(s) == [defined |-> TRUE, chars |-> s]

(* name ?? "" *)
orEmpty(name) == IF name.defined THEN name.chars ELSE <<>>

assetFileNames(name) ==
    IF regexTest(CssRegex, orEmpty(name)) THEN "css/[name][extname]"
    ELSE IF regexTest(ImageRegex, orEmpty(name)) THEN "images/[name][extname]"
    ELSE "assets/[name][extname]"

Stems == SeqsUpTo({"a", "."}, MaxStemLen)
Endings ==
    {<<>>, <<".","c","s","s">>, <<".","g","i","f">>, <<".","j","p","g">>,
     <<".","j","p","e","g">>, <<".","p","n","g">>, <<".","s","v","g">>,
     <<".","w","e","b","p">>, <<".","C","S","S">>, <<".","P","N","G">>,
     <<".","j","s">>, <<".","j","p","e">>, <<".","j","p","e","e","g">>,
     <<"c","s","s">>, <<"p","n","g">>, <<".","s","c","s","s">>,
     <<".","w","e","b">>}
Tails == {<<>>, <<".","m","a","p">>, <<".","c","s","s">>, <<".","j","p","e","g">>,
          <<"x">>}
AssetNames ==
    {Undefined} \cup {Name(a \o e \o x) : a \in Stems, e \in Endings, x \in Tails}

AssetFileNames(name) ==
    /\ call = NoCall
    /\ call' = [op |-> "assetFileNames", name |-> name,
                result |-> assetFileNames(name)]
    /\ UNCHANGED serverVars

InitConfig ==
    /\ hotDirExists = FALSE
    /\ hotFileContent = NoFile
    /\ server = [s \in Servers |-> NoServer]
    /\ onceListening = [s \in Servers |-> FALSE]
    /\ closeListeners = [s \in Servers |-> 0]
    /\ closes = [s \in Servers |-> 0]
    /\ sigListeners = [sig \in Signals |-> 0]
    /\ proc = Running
    /\ shutdownCalls = 0
    /\ lastListening = 0
    /\ closedSince = FALSE
    /\ last = [op |-> "init", s |-> 0, preFile |-> NoFile, preDir |-> FALSE]
    /\ call = NoCall

NextConfig ==
    \/ \E options \in OptionsSet : Hmr(options)
    \/ \E name \in AssetNames : AssetFileNames(name)

SpecConfig == InitConfig /\ [][NextConfig]_vars


----------------------------------------------------------------------------
(* Vocabulary of the session claims *)

Listened(s) == server[s].state \in {"active", "closed"} /\ ~onceListening[s]
Active(s) == server[s].state = "active" /\ proc.status = "running"
Session(s) == IF Active(s) THEN "Active" ELSE "Idle"
CleanupTriggers == {"close"} \cup Signals
SingleSession == NumConfigured = 1 /\ server[1].state # "nohttp"

(* C1: once every server that emitted 'listening' has also emitted 'close', *)
(* or a signal listener has run, the marker file does not exist; no cleanup *)
(* ever throws; and a cleanup that finds the marker absent leaves the       *)
(* marker and its directory as they were.                                   *)
C1_RoundTrip ==
    /\ proc.by # "uncaught-exception"
    /\ ( /\ \E s \in Servers : Listened(s)
         /\ \A s \in Servers : Listened(s) => closes[s] >= 1 )
       => hotFileContent = NoFile
    /\ (\E s \in Servers : Listened(s)) /\ proc.by = "signal-handler"
       => hotFileContent = NoFile
    /\ (last.op \in CleanupTriggers /\ last.preFile = NoFile)
       => hotFileContent = NoFile /\ hotDirExists = last.preDir

(* C1 witness: one server listened and was closed twice; the second cleanup *)
(* found the marker already gone.                                           *)
C1_Witness ==
    /\ NumConfigured = 1
    /\ Listened(1)
    /\ closes[1] = 2
    /\ last.op = "close"
    /\ last.preFile = NoFile
    /\ hotFileContent = NoFile
    /\ proc.status = "running"

(* C2: when SIGINT or SIGTERM arrives after configureServer has run, the    *)
(* process has exited through the signal listener with status 0 and the     *)
(* marker file is absent, whatever the servers' states were.                *)
C2_SignalCleanupBeforeExit ==
    (last.op \in Signals /\ NumConfigured >= 1)
    => /\ proc = Exited("signal-handler", 0)
       /\ hotFileContent = NoFile
       /\ shutdownCalls = 1

(* C2 witness: the signal arrived while a server was Active and the marker  *)
(* existed.                                                                 *)
C2_Witness ==
    /\ last.op \in Signals
    /\ last.preFile # NoFile
    /\ \E s \in Servers : server[s].state = "active"
    /\ proc.status = "exited"
    /\ proc.code = 0
    /\ hotFileContent = NoFile

C3_Inv ==
    SingleSession =>
       /\ Active(1) => hotFileContent = url(server[1].address)
       /\ (Listened(1) /\ ~Active(1)) => hotFileContent = NoFile
       /\ proc.status = "exited" => last.op \in Signals
       /\ last.op = "close" => proc.status = "running"

C3_Step ==
    SingleSession' =>
       /\ (Session(1) = "Idle" /\ Session(1)' = "Active") => last'.op = "listening"
       /\ (Session(1) = "Active" /\ Session(1)' = "Idle")
             => last'.op \in CleanupTriggers
       /\ (Session(1) = "Active" /\ last'.op \in CleanupTriggers)
             => Session(1)' = "Idle"
       /\ (proc.status = "running" /\ proc'.status = "exited")
             => last'.op \in Signals

(* C3: for a single dev session the marker exists with the session's URL    *)
(* exactly while the session is Active and is absent once it is Idle again; *)
(* Idle -> Active happens only on 'listening', Active -> Idle only on       *)
(* 'close' or a signal, and the process exits only on a signal.             *)
C3_SessionStateMachine == []C3_Inv /\ [][C3_Step]_vars

(* C3 witness: the single session went Idle -> Active -> Idle by 'close',   *)
(* the marker was there before the close and is gone, the process runs.     *)
C3_Witness ==
    /\ SingleSession
    /\ Listened(1)
    /\ server[1].state = "closed"
    /\ last.op = "close"
    /\ last.preFile # NoFile
    /\ hotFileContent = NoFile
    /\ proc.status = "running"

(* C4: right after the 'listening' handler ran, the directory exists and    *)
(* the whole marker content is "http://<host>:<port>": the bound port and   *)
(* host for an AddressInfo, "http://localhost:5173" when address() is null, *)
(* undefined or a string; "::" with port 5174 gives "http://localhost:5174".*)
C4_MarkerContent ==
    last.op = "listening" =>
       LET a == server[last.s].address
       IN  /\ hotDirExists
           /\ a.kind # "info" => hotFileContent = "http://localhost:5173"
           /\ a.kind = "info" =>
                 hotFileContent = "http://" \o host(a) \o ":" \o ToString(a.port)
           /\ a = AddrInfo("::", 5174) => hotFileContent = "http://localhost:5174"
           /\ a = AddrInfo("127.0.0.1", 5174)
                 => hotFileContent = "http://127.0.0.1:5174"

(* C4 witness: 'listening' with address "::" and port 5174 replaced a stale *)
(* marker.                                                                  *)
C4_Witness ==
    /\ last.op = "listening"
    /\ last.preFile = StaleContent
    /\ server[last.s].address = AddrInfo("::", 5174)
    /\ hotFileContent = "http://localhost:5174"

(* C5: the host written to the marker is "localhost" for both bind-all      *)
(* addresses "::" and "0.0.0.0", and the address itself otherwise.          *)
C5_BindAllSubstitution ==
    last.op = "listening" =>
       LET a == server[last.s].address
       IN  a.kind = "info" =>
              hotFileContent =
                 "http://"
                 \o (IF a.address \in {"::", "0.0.0.0"} THEN "localhost" ELSE a.address)
                 \o ":" \o ToString(a.port)

(* C9: each signal has at most one shutdown listener registered, and at     *)
(* most one shutdown listener is ever invoked.                              *)
C9_SingleShutdownRoutine ==
    /\ \A sig \in Signals : sigListeners[sig] <= 1
    /\ shutdownCalls <= 1

(* C10 as stated: while the process runs and some server is Active, the     *)
(* marker holds the URL of an Active server.                                *)
C10_Original ==
    (\E s \in Servers : Active(s))
    => \E s \in Servers : Active(s) /\ hotFileContent = url(server[s].address)

(* C10 amended: while the process runs and no server has emitted 'close'    *)
(* since the latest 'listening', the marker holds the URL of the server     *)
(* that listened last, which is Active; a 'close' of any server leaves the  *)
(* marker absent even when another server is still Active.                  *)
C10_LastWriterUntilClose ==
    /\ (proc.status = "running" /\ lastListening # 0 /\ ~closedSince)
       => /\ Active(lastListening)
          /\ hotFileContent = url(server[lastListening].address)
    /\ last.op = "close" => hotFileContent = NoFile

(* C10 witness: two servers are Active with different URLs and the marker   *)
(* holds the URL of the one that listened last.                             *)
C10_Witness ==
    /\ Active(1)
    /\ Active(2)
    /\ lastListening = 2
    /\ ~closedSince
    /\ url(server[1].address) # url(server[2].address)
    /\ hotFileContent = url(server[2].address)

----------------------------------------------------------------------------
(* Vocabulary of the configuration claims *)

IsHmrCall == call.op = "hmr"
InputList(input) ==
    IF input.kind = "array" THEN input.items
    ELSE [i \in 1..Len(input.keys) |-> input.items[input.keys[i]]]
ParentDirs(input) ==
    [i \in 1..Len(InputList(input)) |->
        dirname(replaceBackslashes(InputList(input)[i]))]
FirstIndex(l, x) == CHOOSE i \in 1..Len(l) : l[i] = x /\ \A j \in 1..(i - 1) : l[j] # x
EndsWith(s, suffix) ==
    /\ Len(s) >= Len(suffix)
    /\ SubSeq(s, Len(s) - Len(suffix) + 1, Len(s)) = suffix

SrcJs == <<"s","r","c","/","j","s">>
SrcCss == <<"s","r","c","/","c","s","s">>

(* C6: with refresh = true the reload plugin receives the parent            *)
(* directories of the inputs (array elements or record values, backslashes  *)
(* replaced by slashes): every input's directory is listed, nothing else    *)
(* is, no directory is listed twice, and the order is that of first         *)
(* occurrence among the inputs.                                             *)
C6_AutoWatchRoots ==
    (IsHmrCall /\ call.options.refresh = RBool(TRUE)) =>
       LET dirs == ParentDirs(call.options.input)
           ins == InputList(call.options.input)
       IN  /\ Len(call.result) = 2
           /\ LET got == call.result[2].paths
              IN  /\ \A i \in 1..Len(dirs) : \E j \in 1..Len(got) : got[j] = dirs[i]
                  /\ \A j \in 1..Len(got) : \E i \in 1..Len(dirs) : dirs[i] = got[j]
                  /\ \A j, k \in 1..Len(got) : j # k => got[j] # got[k]
                  /\ \A j, k \in 1..Len(got) :
                        j < k => FirstIndex(dirs, got[j]) < FirstIndex(dirs, got[k])
                  /\ ins = <<ExampleA, ExampleB>> => got = <<SrcJs, SrcCss>>
                  /\ ins = <<ExampleB, ExampleA>> => got = <<SrcCss, SrcJs>>
                  /\ ins = <<ExampleA, ExampleC>> => got = <<SrcJs>>
                  /\ ins = <<ExampleD, ExampleA>> => got = <<SrcJs>>
                  /\ ins = <<>> => got = <<>>

(* C6 witness: a record input whose two values lie in the same directory,   *)
(* one of them written with backslashes, gave the single root src/js.       *)
C6_Witness ==
    /\ IsHmrCall
    /\ call.options.refresh = RBool(TRUE)
    /\ call.options.input = RecordInput(<<ExampleD, ExampleA>>)
    /\ call.result = <<MainPlugin, fullReload(<<SrcJs>>)>>

(* C7: refresh false or omitted returns the main plugin alone; a list of    *)
(* strings reaches the reload plugin unchanged; a single string reaches it  *)
(* as a one-element list; every enabled case appends exactly one reload     *)
(* plugin after the main plugin.                                            *)
C7_ReloadDispatch ==
    IsHmrCall =>
       LET r == call.options.refresh
           res == call.result
       IN  /\ res[1] = MainPlugin
           /\ (r.kind = "undefined" \/ (r.kind = "boolean" /\ ~r.bool))
                 => res = <<MainPlugin>>
           /\ (r.kind \in {"array", "string"} \/ (r.kind = "boolean" /\ r.bool))
                 => Len(res) = 2 /\ res[2].name = "vite-plugin-full-reload"
           /\ r.kind = "array" => res[2].paths = r.list
           /\ r.kind = "string" => res[2].paths = <<r.str>>

(* C7 witness: a refresh list holding the same pattern twice was passed on  *)
(* with both occurrences.                                                   *)
C7_Witness ==
    /\ IsHmrCall
    /\ call.options.refresh.kind = "array"
    /\ Len(call.options.refresh.list) = 2
    /\ call.options.refresh.list[1] = call.options.refresh.list[2]
    /\ call.result = <<MainPlugin, fullReload(call.options.refresh.list)>>

ImageEndings ==
    {<<".","g","i","f">>, <<".","j","p","g">>, <<".","j","p","e","g">>,
     <<".","p","n","g">>, <<".","s","v","g">>, <<".","w","e","b","p">>}

(* C8: the naming rule gives "css/..." exactly to names ending in .css,     *)
(* "images/..." exactly to the other names ending in .gif, .jpg, .jpeg,     *)
(* .png, .svg or .webp, and "assets/..." to everything else, an undefined   *)
(* name and upper-case extensions included.                                 *)
C8_AssetNamingClasses ==
    call.op = "assetFileNames" =>
       LET n == IF call.name.defined THEN call.name.chars ELSE <<>>
           isCss == EndsWith(n, <<".","c","s","s">>)
           isImage == \E e \in ImageEndings : EndsWith(n, e)
       IN  /\ isCss => call.result = "css/[name][extname]"
           /\ (~isCss /\ isImage) => call.result = "images/[name][extname]"
           /\ (~isCss /\ ~isImage) => call.result = "assets/[name][extname]"
           /\ ~call.name.defined => call.result = "assets/[name][extname]"

(* C8 witness: a name with .css in the middle and .jpeg at the end went to  *)
(* images/.                                                                 *)
C8_Witness ==
    /\ call.op = "assetFileNames"
    /\ call.name = Name(<<"a",".","c","s","s",".","j","p","e","g">>)
    /\ call.result = "images/[name][extname]"

====
